---- MODULE Spec2Model ----
(***************************************************************************)
(* Model of pyoxidizer/src/starlark/env.rs: the evaluation context of a    *)
(* Starlark configuration file (PyOxidizerEnvironmentContext), the build   *)
(* context's state lookups (PyOxidizerBuildContext), the built-ins print   *)
(* and set_build_path, and the assembly of the global environment.         *)
(*                                                                         *)
(* Paths are Unix paths.  A path is the record                             *)
(*     [abs |-> BOOLEAN, segs |-> sequence of segments, trail |-> BOOLEAN] *)
(* of its raw text: abs says the text starts with "/", segs are the texts  *)
(* between separators ("." and ".." included, as written) and trail says   *)
(* the text ends with a separator after its last segment.  Empty segments  *)
(* ("//") are not drawn as inputs.                                         *)
(***************************************************************************)
EXTENDS Naturals, Sequences, FiniteSets, TLC

VARIABLES procCwd, ctx, result, pc, pos, env, tv, bctx, views, sess, lastOk

\* ------------------------------------------------------------------ bounds

\* Longest directory part of a config path that is drawn, in segments.
MaxDirs == 1
\* Longest argument of set_build_path that is drawn, in segments.
MaxArg == 2
\* Most arguments of a print call that is drawn.
MaxPrintArgs == 2
\* Most shared views of the context value that native code holds at a time.
MaxViews == 2
\* Most contexts alive at a time.
MaxSessions == 2

\* ------------------------------------------------------------ option/result

None == [some |-> FALSE]
Some(v) == [some |-> TRUE, val |-> v]

Ok(v) == [ok |-> TRUE, val |-> v]
Err(e) == [ok |-> FALSE, err |-> e]

\* ------------------------------------------------------------------- paths

DotSegs == {".", ".."}
\* The segments config paths are drawn from, and those of set_build_path's
\* arguments.
ConfigSegs == {"proj"} \cup DotSegs
ArgSegs == {"out"} \cup DotSegs
FileName == "cfg.star"

Path(a, s, t) == [abs |-> a, segs |-> s, trail |-> t]

SeqsUpTo(S, n) == UNION {[1..k -> S] : k \in 0..n}

\* The raw paths of at most n segments of S, absolute and relative.
RawPaths(S, n) == {Path(a, s, FALSE) : a \in BOOLEAN, s \in SeqsUpTo(S, n)}

\* std::path::Path::is_relative
IsRelative(p) == ~p.abs

\* Whether segment i of p is no component: std's Components skips every "."
\* but a leading one of a relative path.
Skipped(p, i) == p.segs[i] = "." /\ (p.abs \/ i > 1)

\* std::path::Path::components, the root left to p.abs.
RECURSIVE ComponentsFrom(_, _)
ComponentsFrom(p, i) ==
    IF i > Len(p.segs) THEN <<>>
    ELSE (IF Skipped(p, i) THEN <<>> ELSE <<p.segs[i]>>) \o ComponentsFrom(p, i + 1)

Components(p) == ComponentsFrom(p, 1)

\* The last index below k of a segment that is a component, 0 when none is.
LastKept(p, k) ==
    LET kept == {i \in 1..(k - 1) : ~Skipped(p, i)}
    IN IF kept = {} THEN 0 ELSE CHOOSE i \in kept : \A j \in kept : j <= i

\* std::path::Path::parent: None when the path ends in the root or is empty,
\* else the raw text before the last component, trailing separators and "."
\* trimmed.
Parent(p) ==
    LET k == LastKept(p, Len(p.segs) + 1)
    IN IF k = 0 THEN None
       ELSE Some(Path(p.abs, SubSeq(p.segs, 1, LastKept(p, k)), FALSE))

\* std::path::Path::join (PathBuf::push): an absolute q replaces p; else q is
\* appended after a separator, which an empty q leaves at the end.
Join(p, q) ==
    IF q.abs THEN q
    ELSE IF q.segs = <<>> THEN [p EXCEPT !.trail = (p.segs # <<>>)]
    ELSE Path(p.abs, p.segs \o q.segs, q.trail)

\* A relative path of one segment, as in join("build").
Name(s) == Path(FALSE, <<s>>, FALSE)

\* std::path::Path::display followed by to_string.
RECURSIVE JoinSegs(_)
JoinSegs(s) ==
    IF s = <<>> THEN ""
    ELSE IF Len(s) = 1 THEN s[1]
    ELSE s[1] \o "/" \o JoinSegs(Tail(s))

Display(p) ==
    (IF p.abs THEN "/" ELSE "") \o JoinSegs(p.segs)
        \o (IF p.trail /\ p.segs # <<>> THEN "/" ELSE "")

\* ------------------------------------------------------ path_dedot::ParseDot

\* The loop of parse_dot over the components after the first: ".." removes the
\* last token unless only the root is left, a name is pushed.
RECURSIVE DedotFold(_, _)
DedotFold(tokens, comps) ==
    IF comps = <<>> THEN tokens
    ELSE IF Head(comps) = "." THEN DedotFold(tokens, Tail(comps))
    ELSE IF Head(comps) = ".." THEN
        DedotFold(IF tokens = <<>> THEN tokens ELSE SubSeq(tokens, 1, Len(tokens) - 1),
                  Tail(comps))
    ELSE DedotFold(Append(tokens, Head(comps)), Tail(comps))

\* parse_dot with the process's current directory cwd in hand: a leading "."
\* stands for cwd, a leading ".." for cwd's parent.
ParseDotFrom(p, cwd) ==
    LET comps == Components(p)
    IN IF p.abs THEN Path(TRUE, DedotFold(<<>>, comps), FALSE)
       ELSE IF comps = <<>> THEN p
       ELSE IF Head(comps) = "." THEN
           Path(cwd.abs, DedotFold(Components(cwd), Tail(comps)), FALSE)
       ELSE IF Head(comps) = ".." THEN
           LET up == Parent(cwd)
           IN IF up.some
              THEN Path(up.val.abs, DedotFold(Components(up.val), Tail(comps)), FALSE)
              ELSE Path(cwd.abs /\ cwd.segs = <<>>, DedotFold(<<>>, Tail(comps)), FALSE)
       ELSE Path(FALSE, DedotFold(<<Head(comps)>>, Tail(comps)), FALSE)

\* Whether parse_dot needs the current directory to dedot p.
NeedsCwd(p) == ~p.abs /\ Components(p) # <<>> /\ Head(Components(p)) \in DotSegs

\* The outcomes of p.parse_dot() when std::env::current_dir() gives dir.  The
\* crate reads the current directory (get_cwd!) and propagates its io error;
\* releases of the crate differ in reading it up front or only for a path
\* starting with "." or "..", so an unreadable directory fails every call in
\* the former and only those paths in the latter.
ParseDot(p, dir) ==
    IF dir.ok THEN {Ok(ParseDotFrom(p, dir.val))}
    ELSE IF NeedsCwd(p) THEN {Err("io")}
    ELSE {Err("io"), Ok(ParseDotFrom(p, Path(TRUE, <<>>, FALSE)))}

\* -------------------------------------------- PyOxidizerEnvironmentContext

NoCtx == [kind |-> "none"]

\* What a caller passes to new() besides the config path.
BuildInputs ==
    { [verbose |-> FALSE, host |-> "x86_64-unknown-linux-gnu",
       target |-> "x86_64-unknown-linux-gnu", release |-> FALSE, opt_level |-> "0",
       cache |-> None],
      [verbose |-> TRUE, host |-> "x86_64-unknown-linux-gnu",
       target |-> "aarch64-apple-darwin", release |-> TRUE, opt_level |-> "3",
       cache |-> Some([id |-> "shared", scope |-> None])] }

\* The config paths that are drawn: a directory part, then the file's name or
\* nothing.
ConfigPaths ==
    RawPaths(ConfigSegs, MaxDirs)
        \cup {Path(p.abs, Append(p.segs, FileName), FALSE) : p \in RawPaths(ConfigSegs, MaxDirs)}

PathArgs == RawPaths(ArgSegs, MaxArg)

\* The directories the process can be in; current_dir() fails in the last.
Home == Path(TRUE, <<"home">>, FALSE)
ProcDirs == {Ok(Home), Ok(Path(TRUE, <<"tmp">>, FALSE)), Err("io")}

\* WorkingDirectory that leaves a relative parent as it is.
WorkingDirectory_NeverJoins(parent, dir) == Ok(parent)

\* WorkingDirectory that also removes the parent's "." and ".." segments.
WorkingDirectory_Normalizes(parent, dir) ==
    IF IsRelative(parent)
    THEN (IF dir.ok THEN Ok(Join(dir.val, parent)) ELSE Err("io"))
    ELSE Ok(ParseDotFrom(parent, parent))

\* WorkingDirectory that reads the current directory before it looks at the
\* parent.
WorkingDirectory_AlwaysReads(parent, dir) ==
    IF ~dir.ok THEN Err("io")
    ELSE IF IsRelative(parent) THEN Ok(Join(dir.val, parent)) ELSE Ok(parent)

\* The parent made absolute in new(): a relative one is joined onto
\* std::env::current_dir()?, which gives dir.
WorkingDirectory(parent, dir) ==
    IF IsRelative(parent)
    THEN (IF dir.ok THEN Ok(Join(dir.val, parent)) ELSE Err("io"))
    ELSE Ok(parent)

\* The Arc allocations of distribution caches: allocation 0 is the caller's,
\* the others are made by new(); strong counts the holders, 0 meaning the
\* allocation is not alive.
NoArcs == [k \in 0..MaxSessions |-> [strong |-> 0, scope |-> None]]

\* No context alive and no cache allocated.
NoSessions == [arcs |-> NoArcs, live |-> <<>>, caller |-> FALSE]

\* A context that makes itself a new cache whatever the caller gave.
HeldCache_AlwaysNew(given, python_distributions_path) ==
    [id |-> "new", scope |-> Some(python_distributions_path)]

\* The cache new() stores: the caller's Arc when one is given, else a new Arc
\* of a cache made for python_distributions_path.  id tells the caller's
\* allocation from one made here.
HeldCache(given, python_distributions_path) ==
    IF given.some THEN given.val
    ELSE [id |-> "new", scope |-> Some(python_distributions_path)]

\* PyOxidizerEnvironmentContext::new
New(config_path, in, dir) ==
    LET parent == Parent(config_path)
    IN IF ~parent.some THEN Err("resolving parent directory of config")
       ELSE LET wd == WorkingDirectory(parent.val, dir)
            IN IF ~wd.ok THEN wd
               ELSE
                 LET build_path == Join(wd.val, Name("build"))
                     python_distributions_path ==
                         Join(build_path, Name("python_distributions"))
                 IN Ok([kind |-> "ctx",
                        verbose |-> in.verbose,
                        cwd |-> wd.val,
                        config_path |-> config_path,
                        build_host_triple |-> in.host,
                        build_target_triple |-> in.target,
                        build_release |-> in.release,
                        build_opt_level |-> in.opt_level,
                        build_path |-> build_path,
                        python_distributions_path |-> python_distributions_path,
                        distribution_cache |->
                            HeldCache(in.cache, python_distributions_path)])

\* SetBuildPathWith that moves the working directory along with the build path.
SetBuildPathWith_MovesCwd(c, dedot) ==
    IF ~dedot.ok THEN [ctx |-> c, ret |-> Err(dedot.err)]
    ELSE [ctx |-> [c EXCEPT !.cwd = dedot.val,
                            !.build_path = dedot.val,
                            !.python_distributions_path =
                                Join(dedot.val, Name("python_distributions"))],
          ret |-> Ok("unit")]

\* SetBuildPathWith that makes a new cache for the new distribution path.
SetBuildPathWith_RescopesCache(c, dedot) ==
    IF ~dedot.ok THEN [ctx |-> c, ret |-> Err(dedot.err)]
    ELSE [ctx |-> [c EXCEPT !.build_path = dedot.val,
                            !.python_distributions_path =
                                Join(dedot.val, Name("python_distributions")),
                            !.distribution_cache =
                                [id |-> "new",
                                 scope |-> Some(Join(dedot.val, Name("python_distributions")))]],
          ret |-> Ok("unit")]

\* SetBuildPathWith that assigns build_path alone.
SetBuildPathWith_StaleDistributions(c, dedot) ==
    IF ~dedot.ok THEN [ctx |-> c, ret |-> Err(dedot.err)]
    ELSE [ctx |-> [c EXCEPT !.build_path = dedot.val], ret |-> Ok("unit")]

\* PyOxidizerEnvironmentContext::set_build_path on context c, with the outcome
\* dedot of parse_dot: the error returns before either field is assigned.
SetBuildPathWith(c, dedot) ==
    IF ~dedot.ok THEN [ctx |-> c, ret |-> Err(dedot.err)]
    ELSE [ctx |-> [c EXCEPT !.build_path = dedot.val,
                            !.python_distributions_path =
                                Join(dedot.val, Name("python_distributions"))],
          ret |-> Ok("unit")]

\* ResolveArg that resolves a relative path against the build path in place.
ResolveArg_AgainstBuildPath(c, path) ==
    IF IsRelative(path) THEN Join(c.build_path, path) ELSE path

\* The path set_build_path hands to parse_dot.
ResolveArg(c, path) == IF IsRelative(path) THEN Join(c.cwd, path) ELSE path

\* Set_build_path that assigns build_path before it dedots the path.
Set_build_path_AssignsFirst(c, path, dir) ==
    {IF d.ok THEN SetBuildPathWith(c, d)
     ELSE [ctx |-> [c EXCEPT !.build_path = ResolveArg(c, path)], ret |-> Err(d.err)]
     : d \in ParseDot(ResolveArg(c, path), dir)}

\* Set_build_path that moves the build path only from where new() put it.
Set_build_path_OnlyOnce(c, path, dir) ==
    {IF d.ok /\ c.build_path # Join(c.cwd, Name("build"))
     THEN [ctx |-> c, ret |-> Ok("unit")]
     ELSE SetBuildPathWith(c, d)
     : d \in ParseDot(ResolveArg(c, path), dir)}

\* The outcomes of c.set_build_path(path) when current_dir() gives dir.
Set_build_path(c, path, dir) ==
    {SetBuildPathWith(c, d) : d \in ParseDot(ResolveArg(c, path), dir)}

\* -------------------------------------------------- PyOxidizerBuildContext

NoBuildCtx == [kind |-> "none"]

Triples == {"x86_64-unknown-linux-gnu", "aarch64-apple-darwin"}

\* The build contexts a caller can have configured (all fields are public).
BuildContexts ==
    [kind : {"build"}, host_triple : Triples, target_triple : Triples,
     release : BOOLEAN, opt_level : {"0", "3"},
     output_path : {Path(TRUE, <<"out">>, FALSE), Path(FALSE, <<"proj", "out">>, FALSE)}]

\* The keys lookups are made with: the five declared ones and one undeclared.
StateKeys == {"host_triple", "target_triple", "opt_level", "release", "output_path", "build_path"}

InvalidKey(key) == Err([kind |-> "InvalidKey", key |-> key])

\* BuildContext::get_state_string
Get_state_string(b, key) ==
    CASE key = "host_triple" -> Ok(b.host_triple)
      [] key = "target_triple" -> Ok(b.target_triple)
      [] key = "opt_level" -> Ok(b.opt_level)
      [] OTHER -> InvalidKey(key)

\* get_state_bool that answers an undeclared key with false.
Get_state_bool_Default(b, key) ==
    CASE key = "release" -> Ok(b.release)
      [] OTHER -> Ok(FALSE)

\* BuildContext::get_state_bool
Get_state_bool(b, key) ==
    CASE key = "release" -> Ok(b.release)
      [] OTHER -> InvalidKey(key)

\* BuildContext::get_state_path
Get_state_path(b, key) ==
    CASE key = "output_path" -> Ok(b.output_path)
      [] OTHER -> InvalidKey(key)

\* ------------------------------------------------------- Starlark values

Str(s) == [type |-> "string", s |-> s]
Int(n) == [type |-> "int", n |-> n]
Fn(name) == [type |-> "function", name |-> name]
NoneValue == [type |-> "NoneType"]

\* Value::new(context): the handle of the PyOxidizerEnvironmentContext, whose
\* content is the variable ctx.
ContextValue == [type |-> "EnvironmentContext"]

\* The names of the primary environment that are modelled: one of the base
\* language, two of the build-targets dialect, one of the domain modules, and
\* those env.rs binds.
EnvNames ==
    {"len", "BUILD_CONTEXT", "register_target", "default_python_distribution",
     "print", "set_build_path", "CWD", "CONFIG_PATH", "BUILD_TARGET_TRIPLE", "CONTEXT"}

\* PyOxidizerContext::TYPE
PyOxidizerType == "PyOxidizer"

\* The (type, attribute) pairs of the TypeValues dictionary that are modelled.
TypeKeys == {<<PyOxidizerType, n>> : n \in EnvNames} \cup {<<"BuildTargets", "BUILD_CONTEXT">>}

EmptyEnv == [n \in EnvNames |-> None]
EmptyTypeValues == [k \in TypeKeys |-> None]

\* Environment::set on an environment that is not frozen.
EnvSet(st, name, v) == [st EXCEPT !.env[name] = Some(v)]

\* Environment::get
EnvGet(st, name) ==
    IF st.env[name].some THEN Ok(st.env[name].val)
    ELSE Err([kind |-> "VariableNotFound", name |-> name])

\* TypeValues::add_type_value
AddTypeValue(st, type, attr, v) == [st EXCEPT !.tv[<<type, attr>>] = Some(v)]

\* TypeValues::get_type_value, by the type of the value asked with.
GetTypeValue(types, type, attr) == types[<<type, attr>>]

\* ------------------------------------------------------ global_environment

\* starlark::stdlib::global_environment
Stdlib(st, c) == Ok(EnvSet([env |-> EmptyEnv, tv |-> EmptyTypeValues], "len", Fn("len")))

\* starlark_dialect_build_targets::populate_environment
PopulateEnvironment(st, c) ==
    LET bound == EnvSet(st, "BUILD_CONTEXT", [type |-> "BuildContext"])
    IN Ok(AddTypeValue(bound, "BuildTargets", "BUILD_CONTEXT", [type |-> "BuildContext"]))

\* starlark_dialect_build_targets::build_targets_module
BuildTargetsModule(st, c) == Ok(EnvSet(st, "register_target", Fn("register_target")))

\* global_module: the starlark_module! of print and set_build_path
GlobalModule(st, c) ==
    Ok(EnvSet(EnvSet(st, "print", Fn("print")), "set_build_path", Fn("set_build_path")))

\* file_resource_env, python_distribution_module, python_executable_env and
\* python_packaging_policy_module
DomainModules(st, c) ==
    Ok(EnvSet(st, "default_python_distribution", Fn("default_python_distribution")))

\* SetConstants that binds CWD to the config path.
SetConstants_ConfigAsCwd(st, c) ==
    Ok(EnvSet(EnvSet(EnvSet(st, "CWD", Str(Display(c.config_path))),
                     "CONFIG_PATH", Str(Display(c.config_path))),
              "BUILD_TARGET_TRIPLE", Str(c.build_target_triple)))

\* The three env.set of the constants.
SetConstants(st, c) ==
    Ok(EnvSet(EnvSet(EnvSet(st, "CWD", Str(Display(c.cwd))),
                     "CONFIG_PATH", Str(Display(c.config_path))),
              "BUILD_TARGET_TRIPLE", Str(c.build_target_triple)))

\* env.set("CONTEXT", Value::new(context))
SetContext(st, c) == Ok(EnvSet(st, "CONTEXT", ContextValue))

\* AliasList that leaves the context handle out.
AliasList_WithoutContext == <<"set_build_path", "CWD", "CONFIG_PATH", "BUILD_TARGET_TRIPLE">>

\* The names republished as PyOxidizer.* attributes, in the order of the loop.
AliasList == <<"set_build_path", "CONTEXT", "CWD", "CONFIG_PATH", "BUILD_TARGET_TRIPLE">>

\* The aliasing loop that passes over a name that is not bound.
RECURSIVE AliasFrom_SkipsMissing(_, _)
AliasFrom_SkipsMissing(st, i) ==
    IF i > Len(AliasList) THEN Ok(st)
    ELSE LET got == EnvGet(st, AliasList[i])
         IN IF ~got.ok THEN AliasFrom_SkipsMissing(st, i + 1)
            ELSE AliasFrom_SkipsMissing(
                     AddTypeValue(st, PyOxidizerType, AliasList[i], got.val), i + 1)

\* The aliasing loop from its i-th name: env.get(f)? ends it at a missing name.
RECURSIVE AliasFrom(_, _)
AliasFrom(st, i) ==
    IF i > Len(AliasList) THEN Ok(st)
    ELSE LET got == EnvGet(st, AliasList[i])
         IN IF ~got.ok THEN got
            ELSE AliasFrom(AddTypeValue(st, PyOxidizerType, AliasList[i], got.val), i + 1)

AliasPass(st, c) == AliasFrom(st, 1)

\* AssemblyPlan with the aliasing loop before env.set("CONTEXT", ...).
AssemblyPlan_AliasBeforeContext ==
    <<"stdlib", "populate_environment", "build_targets_module", "global_module",
      "domain_modules", "constants", "alias", "context">>

\* The statements of global_environment, in the order of the function's text.
AssemblyPlan ==
    <<"stdlib", "populate_environment", "build_targets_module", "global_module",
      "domain_modules", "constants", "context", "alias">>

\* One statement of global_environment on the environment pair st, for the
\* context c.
RunStatement(stmt, st, c) ==
    CASE stmt = "stdlib" -> Stdlib(st, c)
      [] stmt = "populate_environment" -> PopulateEnvironment(st, c)
      [] stmt = "build_targets_module" -> BuildTargetsModule(st, c)
      [] stmt = "global_module" -> GlobalModule(st, c)
      [] stmt = "domain_modules" -> DomainModules(st, c)
      [] stmt = "constants" -> SetConstants(st, c)
      [] stmt = "context" -> SetContext(st, c)
      [] stmt = "alias" -> AliasPass(st, c)

\* ------------------------------------------------- views of the context value

\* The views of the context value that are outstanding: how many exclusive
\* ones and how many shared ones.
NoViews == [excl |-> 0, shared |-> 0]

\* The error of an acquisition the value's cell refuses.
Borrowed == Err([code |-> "Borrowed"])

\* downcast_ref that does not look at the exclusive view.
Downcast_ref_WhileExclusive(v, held) ==
    IF v.type # "EnvironmentContext" THEN [ret |-> Ok(None), views |-> held]
    ELSE [ret |-> Ok(Some("shared")), views |-> [held EXCEPT !.shared = @ + 1]]

\* Value::downcast_ref::<PyOxidizerEnvironmentContext>() while the views held
\* are outstanding: no view for a value of another type; the Mutable holder's
\* cell refuses a shared view while an exclusive one is out.
Downcast_ref(v, held) ==
    IF v.type # "EnvironmentContext" THEN [ret |-> Ok(None), views |-> held]
    ELSE IF held.excl > 0 THEN [ret |-> Borrowed, views |-> held]
    ELSE [ret |-> Ok(Some("shared")), views |-> [held EXCEPT !.shared = @ + 1]]

\* Value::downcast_mut::<PyOxidizerEnvironmentContext>() while the views held
\* are outstanding: the cell refuses an exclusive view while any view is out.
Downcast_mut(v, held) ==
    IF v.type # "EnvironmentContext" THEN [ret |-> Ok(None), views |-> held]
    ELSE IF held.excl > 0 \/ held.shared > 0 THEN [ret |-> Borrowed, views |-> held]
    ELSE [ret |-> Ok(Some("exclusive")), views |-> [held EXCEPT !.excl = @ + 1]]

\* A view of the given kind goes out of scope.
Release(kind, held) ==
    IF kind = "exclusive" THEN [held EXCEPT !.excl = @ - 1]
    ELSE [held EXCEPT !.shared = @ - 1]

\* ---------------------------------------------------------------- built-ins

\* get_context
Get_context(types) ==
    LET v == GetTypeValue(types, PyOxidizerType, "CONTEXT")
    IN IF v.some THEN Ok(v.val)
       ELSE Err([code |-> "PYOXIDIZER", label |-> "",
                 message |-> "Unable to resolve context (this should never happen)"])

\* Value::to_string of a print argument.
ValueToString(v) == IF v.type = "string" THEN v.s ELSE ToString(v.n)

\* PrintParts that puts the separator before every argument, the first too.
RECURSIVE PrintParts_SeparatorBeforeEach(_, _)
PrintParts_SeparatorBeforeEach(args, first) ==
    IF args = <<>> THEN ""
    ELSE " " \o ValueToString(Head(args)) \o PrintParts_SeparatorBeforeEach(Tail(args), FALSE)

\* The loop of starlark_print and parts.join("").
RECURSIVE PrintParts(_, _)
PrintParts(args, first) ==
    IF args = <<>> THEN ""
    ELSE (IF first THEN "" ELSE " ") \o ValueToString(Head(args)) \o PrintParts(Tail(args), FALSE)

\* starlark_print that hands a failed write of the logger on to its caller.
Starlark_print_ReportsLoggerFailure(types, args, sink, held) ==
    IF sink = "accepts"
    THEN [ret |-> Ok(NoneValue), written |-> TRUE, views |-> held,
          lines |-> <<[level |-> "warn", msg |-> PrintParts(args, TRUE)]>>]
    ELSE [ret |-> Err([code |-> "Logger"]), written |-> FALSE, views |-> held,
          lines |-> <<[level |-> "warn", msg |-> PrintParts(args, TRUE)]>>]

\* starlark_print, called while the views held are outstanding and the
\* logger's drain is in state sink: the return value, the records handed to
\* the logger, whether the drain wrote them, and the views outstanding at the
\* return.  warn! has no value, so nothing of the drain reaches the caller;
\* the shared view `context` is dropped when the function returns.
Starlark_print(types, args, sink, held) ==
    LET raw_context == Get_context(types)
    IN IF ~raw_context.ok
       THEN [ret |-> raw_context, lines |-> <<>>, written |-> FALSE, views |-> held]
       ELSE LET context == Downcast_ref(raw_context.val, held)
            IN IF ~context.ret.ok
               THEN [ret |-> context.ret, lines |-> <<>>, written |-> FALSE, views |-> held]
               ELSE IF ~context.ret.val.some
               THEN [ret |-> Err([code |-> "IncorrectParameterType"]), lines |-> <<>>,
                     written |-> FALSE, views |-> held]
               ELSE [ret |-> Ok(NoneValue),
                     lines |-> <<[level |-> "warn", msg |-> PrintParts(args, TRUE)]>>,
                     written |-> (sink = "accepts"),
                     views |-> Release("shared", context.views)]

\* What starlark_set_build_path makes of the context's outcome r.
ScriptOutcome(r, held) ==
    [ctx |-> r.ctx,
     ret |-> IF r.ret.ok THEN Ok(NoneValue)
             ELSE Err([code |-> "PYOXIDIZER_BUILD", label |-> "set_build_path()",
                       message |-> r.ret.err]),
     views |-> held]

\* starlark_set_build_path whose error carries no label.
Starlark_set_build_path_Unlabelled(types, c, path, dir, held) ==
    {[ScriptOutcome(r, held) EXCEPT
         !.ret = IF r.ret.ok THEN Ok(NoneValue)
                 ELSE Err([code |-> "PYOXIDIZER_BUILD", label |-> "",
                           message |-> r.ret.err])]
     : r \in Set_build_path(c, path, dir)}

\* starlark_set_build_path that returns an error without dropping its view.
Starlark_set_build_path_KeepsView(types, c, path, dir, held) ==
    {[ScriptOutcome(r, held) EXCEPT
         !.views = IF r.ret.ok THEN held ELSE Downcast_mut(ContextValue, held).views]
     : r \in Set_build_path(c, path, dir)}

\* starlark_set_build_path, called while the views held are outstanding: the
\* outcomes, each the context afterwards, the return value and the views
\* outstanding at the return.  The exclusive view `context` is dropped when
\* the function returns, by whichever path.
Starlark_set_build_path(types, c, path, dir, held) ==
    LET raw_context == Get_context(types)
    IN IF ~raw_context.ok THEN {[ctx |-> c, ret |-> raw_context, views |-> held]}
       ELSE LET context == Downcast_mut(raw_context.val, held)
            IN IF ~context.ret.ok
               THEN {[ctx |-> c, ret |-> context.ret, views |-> held]}
               ELSE IF ~context.ret.val.some
               THEN {[ctx |-> c, ret |-> Err([code |-> "IncorrectParameterType"]),
                      views |-> held]}
               ELSE {ScriptOutcome(r, Release("exclusive", context.views))
                     : r \in Set_build_path(c, path, dir)}

\* The states of the logger's drain at a call.
LoggerSinks == {"accepts", "fails"}

PrintValues == {Str("a"), Int(3)}
PrintArgs == SeqsUpTo(PrintValues, MaxPrintArgs)

\* ----------------------------------------------------------------- actions

\* What is kept of the last call of op: its return value and, when it
\* succeeded, the argument it was given.
CallResult(op, arg, ret) ==
    IF ret.ok THEN [op |-> op, ret |-> ret, arg |-> arg] ELSE [op |-> op, ret |-> ret]

\* The variables beside one context and its environment: the views of the
\* context value that are outstanding, the sessions sharing a cache, and the
\* argument of the last set_build_path call that succeeded.
aux == <<views, sess, lastOk>>

vars == <<procCwd, ctx, result, pc, pos, env, tv, bctx, views, sess, lastOk>>

Init ==
    /\ procCwd \in ProcDirs
    /\ ctx = NoCtx
    /\ result = [op |-> "none"]
    /\ pc = "host"
    /\ pos = 0
    /\ env = EmptyEnv
    /\ tv = EmptyTypeValues
    /\ bctx = NoBuildCtx
    /\ views = NoViews
    /\ sess = NoSessions
    /\ lastOk = None

\* The host constructs the context of one evaluation session.
ConstructOf(config_path, in) ==
    /\ ctx = NoCtx
    /\ result.op = "none"
    /\ LET r == New(config_path, in, procCwd)
       IN /\ ctx' = IF r.ok THEN r.val ELSE NoCtx
          /\ result' = [op |-> "new", ret |-> IF r.ok THEN Ok("ctx") ELSE r]
    /\ UNCHANGED <<procCwd, pc, pos, env, tv, bctx, aux>>

Construct == \E config_path \in ConfigPaths, in \in BuildInputs : ConstructOf(config_path, in)

\* The host calls set_build_path(path) on the context it holds, before it
\* hands the context to global_environment.
SetBuildPathOf(path) ==
    /\ ctx # NoCtx
    /\ pc = "host"
    /\ pos = 0
    /\ \E r \in Set_build_path(ctx, path, procCwd) :
         /\ ctx' = r.ctx
         /\ result' = CallResult("set_build_path", path, r.ret)
    /\ UNCHANGED <<procCwd, pc, pos, env, tv, bctx, views, sess>>

SetBuildPath == \E path \in PathArgs : SetBuildPathOf(path) /\ UNCHANGED lastOk

\* global_environment(context) runs its next statement; an error returns from
\* the function, the last statement returns the pair (env, type_values).
AssembleStep ==
    /\ ctx # NoCtx
    /\ pc = "host"
    /\ pos < Len(AssemblyPlan)
    /\ LET r == RunStatement(AssemblyPlan[pos + 1], [env |-> env, tv |-> tv], ctx)
       IN IF r.ok
          THEN /\ env' = r.val.env
               /\ tv' = r.val.tv
               /\ pos' = pos + 1
               /\ pc' = IF pos + 1 = Len(AssemblyPlan) THEN "script" ELSE "host"
               /\ result' = IF pos + 1 = Len(AssemblyPlan)
                            THEN [op |-> "global_environment", ret |-> Ok("env")]
                            ELSE [op |-> "global_environment"]
          ELSE /\ pc' = "failed"
               /\ result' = [op |-> "global_environment", ret |-> r]
               /\ UNCHANGED <<env, tv, pos>>
    /\ UNCHANGED <<procCwd, ctx, bctx, aux>>

\* The script calls print(*args).
StarlarkPrintOf(args) ==
    /\ pc = "script"
    /\ \E sink \in LoggerSinks :
         LET r == Starlark_print(tv, args, sink, views)
         IN /\ result' = [op |-> "print", arg |-> args, ret |-> r.ret, lines |-> r.lines,
                          written |-> r.written]
            /\ views' = r.views
    /\ UNCHANGED <<procCwd, ctx, pc, pos, env, tv, bctx, sess, lastOk>>

StarlarkPrint == \E args \in PrintArgs : StarlarkPrintOf(args)

\* The script calls set_build_path(path).
StarlarkSetBuildPathOf(path) ==
    /\ pc = "script"
    /\ \E r \in Starlark_set_build_path(tv, ctx, path, procCwd, views) :
         /\ ctx' = r.ctx
         /\ result' = CallResult("starlark_set_build_path", path, r.ret)
         /\ views' = r.views
    /\ UNCHANGED <<procCwd, pc, pos, env, tv, bctx, sess, lastOk>>

StarlarkSetBuildPath == \E path \in PathArgs : StarlarkSetBuildPathOf(path)

\* The process changes (or loses) its current directory.
Chdir ==
    /\ \E d \in ProcDirs : procCwd' = d
    /\ UNCHANGED <<ctx, result, pc, pos, env, tv, bctx, aux>>

\* The context store on its own: construction and the host's calls.
Next ==
    \/ Construct
    \/ SetBuildPath
    \/ Chdir

Spec == Init /\ [][Next]_vars

\* --------------------------------- the environment of a constructed context

\* The config paths of the contexts environments are assembled for: an absolute
\* one, a bare file name and one under "..".
EnvConfigs ==
    {Path(TRUE, <<"proj", FileName>>, FALSE), Path(FALSE, <<FileName>>, FALSE),
     Path(FALSE, <<"..", FileName>>, FALSE)}

InitEnv ==
    /\ procCwd \in ProcDirs
    /\ ctx \in {New(config_path, in, Ok(Home)).val : config_path \in EnvConfigs, in \in BuildInputs}
    /\ result = [op |-> "new", ret |-> Ok("ctx")]
    /\ pc = "host"
    /\ pos = 0
    /\ env = EmptyEnv
    /\ tv = EmptyTypeValues
    /\ bctx = NoBuildCtx
    /\ views = NoViews
    /\ sess = NoSessions
    /\ lastOk = None

NextEnv ==
    \/ SetBuildPath
    \/ AssembleStep
    \/ StarlarkPrint
    \/ StarlarkSetBuildPath
    \/ Chdir

SpecEnv == InitEnv /\ [][NextEnv]_vars

\* ------------------------------------------ resolving the reserved bindings

\* The environment pair after the first n statements of global_environment
\* for the context c; none of the statements before the aliasing loop fails.
RECURSIVE RunPlan(_, _)
RunPlan(c, n) ==
    IF n = 0 THEN [env |-> EmptyEnv, tv |-> EmptyTypeValues]
    ELSE RunStatement(AssemblyPlan[n], RunPlan(c, n - 1), c).val

\* The environment pair st with the names in missing not bound in env.
Unbound(st, missing) ==
    [st EXCEPT !.env = [n \in EnvNames |-> IF n \in missing THEN None ELSE st.env[n]]]

\* The contexts environments are assembled for.
EnvContexts ==
    {New(config_path, in, Ok(Home)).val : config_path \in EnvConfigs, in \in BuildInputs}

\* The aliasing loop is about to run; the environment it is given is the one
\* the statements before it built, or one that lacks some of the names the
\* loop reads.
InitResolve ==
    /\ procCwd \in ProcDirs
    /\ ctx \in EnvContexts
    /\ result = [op |-> "global_environment"]
    /\ pc = "host"
    /\ pos = Len(AssemblyPlan) - 1
    /\ \E missing \in SUBSET {AliasList[i] : i \in 1..Len(AliasList)} :
         LET st == Unbound(RunPlan(ctx, Len(AssemblyPlan) - 1), missing)
         IN env = st.env /\ tv = st.tv
    /\ bctx = NoBuildCtx
    /\ views = NoViews
    /\ sess = NoSessions
    /\ lastOk = None

\* Native code calls get_context on a secondary surface: the session's, or one
\* nothing was published on.
GetContext ==
    /\ \E types \in {tv, EmptyTypeValues} :
         result' = [op |-> "get_context", ret |-> Get_context(types),
                    bound |-> types[<<PyOxidizerType, "CONTEXT">>].some]
    /\ UNCHANGED <<procCwd, ctx, pc, pos, env, tv, bctx, aux>>

NextResolve ==
    \/ AssembleStep
    \/ GetContext
    \/ StarlarkPrint
    \/ StarlarkSetBuildPath
    \/ Chdir

SpecResolve == InitResolve /\ [][NextResolve]_vars

\* ------------------------------------- native code's views of the context

\* global_environment has returned for a constructed context; no view of the
\* context value is outstanding.
InitBridge ==
    /\ procCwd \in ProcDirs
    /\ ctx \in EnvContexts
    /\ result = [op |-> "global_environment", ret |-> Ok("env")]
    /\ pc = "script"
    /\ pos = Len(AssemblyPlan)
    /\ LET st == RunPlan(ctx, Len(AssemblyPlan)) IN env = st.env /\ tv = st.tv
    /\ bctx = NoBuildCtx
    /\ views = NoViews
    /\ sess = NoSessions
    /\ lastOk = None

\* Native code resolves the context value and asks for an exclusive view, as
\* starlark_set_build_path does; it keeps the view it is given.
HostDowncastMut ==
    /\ pc = "script"
    /\ LET r == Downcast_mut(Get_context(tv).val, views)
       IN /\ result' = [op |-> "downcast_mut", held |-> views, ret |-> r.ret]
          /\ views' = r.views
    /\ UNCHANGED <<procCwd, ctx, pc, pos, env, tv, bctx, sess, lastOk>>

\* Native code resolves the context value and asks for a shared view, as
\* starlark_print does; it keeps the view it is given.
HostDowncastRef ==
    /\ pc = "script"
    /\ views.shared < MaxViews
    /\ LET r == Downcast_ref(Get_context(tv).val, views)
       IN /\ result' = [op |-> "downcast_ref", held |-> views, ret |-> r.ret]
          /\ views' = r.views
    /\ UNCHANGED <<procCwd, ctx, pc, pos, env, tv, bctx, sess, lastOk>>

\* Native code drops a view it holds.
DropView ==
    /\ \E kind \in {"exclusive", "shared"} :
         /\ IF kind = "exclusive" THEN views.excl > 0 ELSE views.shared > 0
         /\ views' = Release(kind, views)
         /\ result' = [op |-> "drop", held |-> views, kind |-> kind]
    /\ UNCHANGED <<procCwd, ctx, pc, pos, env, tv, bctx, sess, lastOk>>

NextBridge ==
    \/ HostDowncastMut
    \/ HostDowncastRef
    \/ DropView

SpecBridge == InitBridge /\ [][NextBridge]_vars

\* ------------------------------------------- contexts that share a cache

\* The caller holds the Arc of a cache it made; no context is alive.
InitCache ==
    /\ procCwd \in ProcDirs
    /\ ctx = NoCtx
    /\ result = [op |-> "none"]
    /\ pc = "host"
    /\ pos = 0
    /\ env = EmptyEnv
    /\ tv = EmptyTypeValues
    /\ bctx = NoBuildCtx
    /\ views = NoViews
    /\ sess = [arcs |-> [NoArcs EXCEPT ![0] = [strong |-> 1, scope |-> None]],
               live |-> <<>>, caller |-> TRUE]
    /\ lastOk = None

\* An allocation no one holds.
FreeArc == CHOOSE k \in 1..MaxSessions : sess.arcs[k].strong = 0

\* The caller constructs one more context, passing a clone of its Arc or no
\* cache; a clone passed to a new() that fails is dropped with its arguments.
ConstructSessionOf(config_path, in) ==
    /\ Len(sess.live) < MaxSessions
    /\ in.cache.some => sess.caller
    /\ LET r == New(config_path, in, procCwd)
       IN IF ~r.ok
          THEN /\ result' = [op |-> "new", given |-> in.cache.some, ret |-> r]
               /\ sess' = sess
          ELSE LET key == IF r.val.distribution_cache.id = "new" THEN FreeArc ELSE 0
               IN /\ result' = [op |-> "new", given |-> in.cache.some, ret |-> Ok("ctx")]
                  /\ sess' = [sess EXCEPT
                                !.arcs[key] = [strong |-> @.strong + 1,
                                               scope |-> r.val.distribution_cache.scope],
                                !.live = Append(@, [ctx |-> r.val, key |-> key,
                                                    given |-> in.cache.some])]
    /\ UNCHANGED <<procCwd, ctx, pc, pos, env, tv, bctx, views, lastOk>>

ConstructSession ==
    \E config_path \in EnvConfigs, in \in BuildInputs : ConstructSessionOf(config_path, in)

\* One holder of the allocation k fewer; the cache is freed with its last.
DropArc(arcs, k) ==
    [arcs EXCEPT ![k] = IF @.strong = 1 THEN [strong |-> 0, scope |-> None]
                        ELSE [@ EXCEPT !.strong = @ - 1]]

\* A context is dropped, and with it its Arc.
DropSession ==
    /\ \E i \in 1..Len(sess.live) :
         sess' = [sess EXCEPT
                    !.arcs = DropArc(@, sess.live[i].key),
                    !.live = SubSeq(@, 1, i - 1) \o SubSeq(@, i + 1, Len(@))]
    /\ result' = [op |-> "drop"]
    /\ UNCHANGED <<procCwd, ctx, pc, pos, env, tv, bctx, views, lastOk>>

\* The caller drops its own Arc of the cache.
CallerDrops ==
    /\ sess.caller
    /\ sess' = [sess EXCEPT !.arcs = DropArc(@, 0), !.caller = FALSE]
    /\ result' = [op |-> "caller_drop"]
    /\ UNCHANGED <<procCwd, ctx, pc, pos, env, tv, bctx, views, lastOk>>

NextCache ==
    \/ ConstructSession
    \/ DropSession
    \/ CallerDrops
    \/ Chdir

SpecCache == InitCache /\ [][NextCache]_vars

\* ------------------------------------- the calls of set_build_path, recorded

\* A constructed context on which set_build_path has not been called.
InitHistory ==
    /\ procCwd \in ProcDirs
    /\ ctx \in EnvContexts
    /\ result = [op |-> "new", ret |-> Ok("ctx")]
    /\ pc = "host"
    /\ pos = 0
    /\ env = EmptyEnv
    /\ tv = EmptyTypeValues
    /\ bctx = NoBuildCtx
    /\ views = NoViews
    /\ sess = NoSessions
    /\ lastOk = None

\* The host calls set_build_path(path); lastOk keeps the argument of the last
\* call that succeeded.
RecordedSetBuildPath ==
    \E path \in PathArgs :
       /\ SetBuildPathOf(path)
       /\ lastOk' = IF result'.ret.ok THEN Some(path) ELSE lastOk

NextHistory ==
    \/ RecordedSetBuildPath
    \/ Chdir

SpecHistory == InitHistory /\ [][NextHistory]_vars

\* ------------------------------------------- the state lookups on their own

InitState ==
    /\ bctx \in BuildContexts
    /\ result = [op |-> "none"]
    /\ procCwd = Ok(Home)
    /\ ctx = NoCtx
    /\ pc = "host"
    /\ pos = 0
    /\ env = EmptyEnv
    /\ tv = EmptyTypeValues
    /\ views = NoViews
    /\ sess = NoSessions
    /\ lastOk = None

GetStateString ==
    /\ \E key \in StateKeys :
         result' = [op |-> "get_state_string", key |-> key, ret |-> Get_state_string(bctx, key)]
    /\ UNCHANGED <<procCwd, ctx, pc, pos, env, tv, bctx, aux>>

GetStateBool ==
    /\ \E key \in StateKeys :
         result' = [op |-> "get_state_bool", key |-> key, ret |-> Get_state_bool(bctx, key)]
    /\ UNCHANGED <<procCwd, ctx, pc, pos, env, tv, bctx, aux>>

GetStatePath ==
    /\ \E key \in StateKeys :
         result' = [op |-> "get_state_path", key |-> key, ret |-> Get_state_path(bctx, key)]
    /\ UNCHANGED <<procCwd, ctx, pc, pos, env, tv, bctx, aux>>

NextState ==
    \/ GetStateString
    \/ GetStateBool
    \/ GetStatePath

SpecState == InitState /\ [][NextState]_vars

\* ------------------------------------------------------------------ claims

\* Path equality of std (PartialEq for Path): the same root and components.
SamePath(p, q) == p.abs = q.abs /\ Components(p) = Components(q)

\* p / name, written out: the segments of p and then name.
Under(p, name) == Path(p.abs, Append(p.segs, name), FALSE)

\* The segments of s with every "." dropped.
WithoutDot(s) == SelectSeq(s, LAMBDA x : x # ".")

\* The segments of an absolute path with ".." resolved: the first ".." goes
\* with the segment before it, or alone when it is first (the root's parent is
\* the root), until none is left.
RECURSIVE WithoutDotDot(_)
WithoutDotDot(s) ==
    LET at == {i \in 1..Len(s) : s[i] = ".."}
    IN IF at = {} THEN s
       ELSE LET i == CHOOSE k \in at : \A j \in at : k <= j
            IN IF i = 1 THEN WithoutDotDot(Tail(s))
               ELSE WithoutDotDot(SubSeq(s, 1, i - 2) \o SubSeq(s, i + 1, Len(s)))

\* normalize(P) for the working directory wd: a relative P is taken under wd,
\* then "." and ".." are removed.
Normalized(wd, P) ==
    Path(TRUE, WithoutDotDot(WithoutDot(IF P.abs THEN P.segs ELSE wd.segs \o P.segs)), FALSE)

\* C1: in every reachable state of a context, distribution_path is
\* build_path / "python_distributions".
C1_DistributionPathDerived ==
    ctx # NoCtx => ctx.python_distributions_path = Under(ctx.build_path, "python_distributions")

\* C1's case: a call failed after an earlier call had moved the build path.
C1_Witness ==
    /\ ctx # NoCtx
    /\ result.op = "set_build_path"
    /\ ~result.ret.ok
    /\ Display(ctx.build_path) = "/proj/out"

\* C2: a set_build_path call that fails leaves build_path and
\* distribution_path as they were before the call.
C2_FailedCallChangesNothing ==
    [][(ctx # NoCtx /\ result'.op = "set_build_path" /\ ~result'.ret.ok)
          => /\ ctx'.build_path = ctx.build_path
             /\ ctx'.python_distributions_path = ctx.python_distributions_path]_vars

\* C2's case: a call failed on a context whose build path an earlier call had
\* set to /out.
C2_Witness ==
    /\ ctx # NoCtx
    /\ result.op = "set_build_path"
    /\ ~result.ret.ok
    /\ result.ret.err = "io"
    /\ Display(ctx.build_path) = "/out"
    /\ Display(ctx.python_distributions_path) = "/out/python_distributions"

\* C3: after a successful set_build_path(P), build_path is normalize(P), a
\* relative P taken under the stored working directory; with working directory
\* /proj, "../out" gives /out and /out/python_distributions.
C3_BuildPathIsNormalizedArgument ==
    (ctx # NoCtx /\ result.op = "set_build_path" /\ result.ret.ok)
       => /\ ctx.build_path = Normalized(ctx.cwd, result.arg)
          /\ (Display(ctx.cwd) = "/proj" /\ Display(result.arg) = "../out")
                => /\ Display(ctx.build_path) = "/out"
                   /\ Display(ctx.python_distributions_path) = "/out/python_distributions"

\* C3's case: under working directory /proj the build path has become /out
\* while the process is in another directory.
C3_Witness ==
    /\ ctx # NoCtx
    /\ result.op = "set_build_path"
    /\ result.ret.ok
    /\ procCwd = Ok(Home)
    /\ Display(ctx.cwd) = "/proj"
    /\ Display(result.arg) = "../out"
    /\ Display(ctx.build_path) = "/out"
    /\ Display(ctx.python_distributions_path) = "/out/python_distributions"

\* All of a sequence but its last element.
Front(s) == SubSeq(s, 1, Len(s) - 1)

\* The directory a config path lies in, made absolute under the directory dir
\* of the process: the components before the last, after dir's when the config
\* path is relative.
AbsoluteParent(config_path, dir) ==
    Path(TRUE,
         (IF config_path.abs THEN <<>> ELSE dir.segs) \o Front(Components(config_path)),
         FALSE)

\* C4: a successful construct gives the config file's parent directory, made
\* absolute, as working directory, build_path = parent / "build" and
\* distribution_path = build_path / "python_distributions"; /proj/cfg.star
\* gives /proj/build and /proj/build/python_distributions.
C4_ConstructDerivesPaths ==
    [][\A config_path \in ConfigPaths, in \in BuildInputs :
          (ConstructOf(config_path, in) /\ result'.ret.ok)
             => /\ ctx'.cwd.abs
                /\ SamePath(ctx'.cwd, AbsoluteParent(config_path, procCwd.val))
                /\ SamePath(ctx'.build_path, Under(ctx'.cwd, "build"))
                /\ ctx'.python_distributions_path
                       = Under(ctx'.build_path, "python_distributions")
                /\ Display(config_path) = "/proj/cfg.star"
                      => /\ Display(ctx'.build_path) = "/proj/build"
                         /\ Display(ctx'.python_distributions_path)
                                = "/proj/build/python_distributions"]_vars

\* C4's case: a context constructed from a relative config path, its working
\* directory under the directory of the process.
C4_Witness ==
    /\ ctx # NoCtx
    /\ result.op = "new"
    /\ Display(ctx.config_path) = "proj/cfg.star"
    /\ Display(ctx.cwd) = "/home/proj"
    /\ Display(ctx.build_path) = "/home/proj/build"

\* C5: the working directory is absolute in every state and no operation after
\* construct changes it, whatever the process's current directory becomes.
C5_WorkingDirectoryFixed ==
    /\ [](ctx # NoCtx => ctx.cwd.abs)
    /\ [][ctx # NoCtx => (ctx' # NoCtx /\ ctx'.cwd = ctx.cwd)]_vars

\* C5's case: the script's set_build_path has succeeded after the process left
\* the directory the working directory was resolved in.
C5_Witness ==
    /\ pc = "script"
    /\ result.op = "starlark_set_build_path"
    /\ result.ret.ok
    /\ Display(ctx.cwd) = "/home/"
    /\ procCwd = Ok(Path(TRUE, <<"tmp">>, FALSE))
    /\ Display(ctx.build_path) = "/home/out"

\* C6 as stated: from an absolute config path P the working directory is P.
C6_WorkingDirectoryIsConfigPath ==
    (ctx # NoCtx /\ ctx.config_path.abs) => SamePath(ctx.cwd, ctx.config_path)

\* C6, amended: from an absolute config path P the working directory is P's
\* parent directory as P writes it: the process's current directory is not
\* joined onto it and its ".." segments stay.
C6_WorkingDirectoryIsParentAsWritten ==
    (ctx # NoCtx /\ ctx.config_path.abs)
       => /\ ctx.cwd.abs
          /\ Components(ctx.cwd) = Front(Components(ctx.config_path))

\* C6's case: an absolute config path under "..".
C6_Witness ==
    /\ ctx # NoCtx
    /\ Display(ctx.config_path) = "/../cfg.star"
    /\ Display(ctx.cwd) = "/.."
    /\ procCwd = Ok(Home)

\* C7: construct fails, and leaves no context, exactly when the config path has
\* no parent (it has no component after the root) or when the parent is
\* relative and the current directory cannot be read.
C7_ConstructFailsExactlyWhen ==
    [][\A config_path \in ConfigPaths, in \in BuildInputs :
          ConstructOf(config_path, in)
             => /\ ~result'.ret.ok
                   <=> \/ Components(config_path) = <<>>
                       \/ ~config_path.abs /\ ~procCwd.ok
                /\ ~result'.ret.ok => ctx' = NoCtx
                /\ result'.ret.ok => ctx' # NoCtx]_vars

\* C7's case: construct failed because the current directory could not be
\* read.
C7_Witness ==
    /\ ctx = NoCtx
    /\ result.op = "new"
    /\ ~result.ret.ok
    /\ result.ret.err = "io"

\* The keys each lookup declares.
DeclaredKeys(op) ==
    CASE op = "get_state_string" -> {"host_triple", "target_triple", "opt_level"}
      [] op = "get_state_bool" -> {"release"}
      [] op = "get_state_path" -> {"output_path"}

\* C8: each of the three lookups returns the configured value for a key of its
\* own keyspace and fails with the error naming the key for any other key, a
\* key of another keyspace included.
C8_LookupsAreExact ==
    result.op \in {"get_state_string", "get_state_bool", "get_state_path"}
       => IF result.key \in DeclaredKeys(result.op)
          THEN result.ret = Ok(bctx[result.key])
          ELSE result.ret = Err([kind |-> "InvalidKey", key |-> result.key])

\* C8's case: the boolean lookup was asked for a key of the string keyspace.
C8_Witness ==
    /\ result.op = "get_state_bool"
    /\ result.key = "host_triple"
    /\ ~result.ret.ok
    /\ result.ret.err.key = "host_triple"
    /\ bctx.release

\* The names the aliasing pass republishes.
AllowList == {"set_build_path", "CONTEXT", "CWD", "CONFIG_PATH", "BUILD_TARGET_TRIPLE"}

Bound(name) == env[name].some

Aliased(name) == tv[<<PyOxidizerType, name>>].some

\* C9: after assembly the environment binds CWD, CONFIG_PATH and
\* BUILD_TARGET_TRIPLE to the strings of the context's working directory,
\* config path and target triple, the context handle under CONTEXT, and print
\* and set_build_path; every allow-listed name has the same value on the
\* secondary surface.
C9_BindingsAfterAssembly ==
    pc = "script"
       => /\ env["CWD"] = Some(Str(Display(ctx.cwd)))
          /\ env["CONFIG_PATH"] = Some(Str(Display(ctx.config_path)))
          /\ env["BUILD_TARGET_TRIPLE"] = Some(Str(ctx.build_target_triple))
          /\ env["CONTEXT"] = Some(ContextValue)
          /\ env["print"] = Some(Fn("print"))
          /\ env["set_build_path"] = Some(Fn("set_build_path"))
          /\ \A name \in AllowList :
                Aliased(name) /\ tv[<<PyOxidizerType, name>>] = env[name]
          /\ Display(ctx.config_path) = "/proj/cfg.star"
                => env["CWD"] = Some(Str("/proj"))
                   /\ env["CONFIG_PATH"] = Some(Str("/proj/cfg.star"))

\* C9's case: the environment of a cross build configured by /proj/cfg.star,
\* after the script moved the build path.
C9_Witness ==
    /\ pc = "script"
    /\ env["CWD"] = Some(Str("/proj"))
    /\ env["BUILD_TARGET_TRIPLE"] = Some(Str("aarch64-apple-darwin"))
    /\ ctx.build_host_triple # ctx.build_target_triple
    /\ result.op = "starlark_set_build_path"
    /\ result.ret.ok

\* C10: assembly runs base built-ins, the dialect's built-ins and context,
\* print and set_build_path, the domain modules, the constants, the context
\* handle and then the aliasing pass, which is last: what a step binds is bound
\* only after the steps before it, no alias exists before every allow-listed
\* name is bound, and the aliasing pass never misses a name.
C10_AssemblyOrder ==
    /\ pc # "failed"
    /\ (Bound("BUILD_CONTEXT") \/ Bound("register_target")) => Bound("len")
    /\ (Bound("print") \/ Bound("set_build_path"))
          => Bound("BUILD_CONTEXT") /\ Bound("register_target")
    /\ Bound("default_python_distribution") => Bound("print") /\ Bound("set_build_path")
    /\ (Bound("CWD") \/ Bound("CONFIG_PATH") \/ Bound("BUILD_TARGET_TRIPLE"))
          => Bound("default_python_distribution")
    /\ Bound("CONTEXT")
          => Bound("CWD") /\ Bound("CONFIG_PATH") /\ Bound("BUILD_TARGET_TRIPLE")
    /\ (\E name \in EnvNames : Aliased(name))
          => /\ \A name \in AllowList : Bound(name)
             /\ pc = "script"
    /\ pc = "script" <=> pos = Len(AssemblyPlan)

\* C10's case: every step but the aliasing pass has run.
C10_Witness ==
    /\ pc = "host"
    /\ pos = Len(AssemblyPlan) - 1
    /\ \A name \in AllowList : Bound(name)
    /\ \A name \in EnvNames : ~Aliased(name)

\* The errors of a reserved binding that is missing when it is looked up:
\* get_context's, and the environment's for a name of the allow-list.
ContextResolutionErrors ==
    {[code |-> "PYOXIDIZER", label |-> "",
      message |-> "Unable to resolve context (this should never happen)"]}
        \cup {[kind |-> "VariableNotFound", name |-> n] : n \in AllowList}

\* C11: get_context on a surface without the reserved context name fails with
\* a context-resolution error; the aliasing pass fails with one when a name of
\* the allow-list is not bound, and then global_environment returns the error
\* instead of an environment and no built-in is ever called by a script.
C11_MissingBindingFails ==
    /\ [](result.op = "get_context"
             => /\ result.ret.ok <=> result.bound
                /\ ~result.bound => ~result.ret.ok /\ result.ret.err \in ContextResolutionErrors)
    /\ [][(AssembleStep /\ pos = Len(AssemblyPlan) - 1 /\ \E n \in AllowList : ~env[n].some)
            => /\ pc' = "failed"
               /\ ~result'.ret.ok
               /\ result'.ret.err \in ContextResolutionErrors
               /\ ~env[result'.ret.err.name].some]_vars
    /\ [][pc = "failed"
            => /\ pc' = "failed"
               /\ result'.op \notin {"print", "starlark_set_build_path"}]_vars

\* C11's case: the aliasing loop found CONTEXT missing, global_environment
\* returned the error, and get_context on the surface left behind failed.
C11_Witness ==
    /\ pc = "failed"
    /\ ~env["CONTEXT"].some
    /\ env["set_build_path"].some
    /\ result.op = "get_context"
    /\ ~result.bound
    /\ ~result.ret.ok
    /\ result.ret.err.code = "PYOXIDIZER"

\* C12: once global_environment has returned, whatever print and
\* set_build_path calls have been made and however they ended, get_context on
\* the secondary surface succeeds with a value of the context's type, and no
\* built-in has returned a context-resolution or type-mismatch error.
C12_ContextAlwaysResolves ==
    pc = "script"
       => /\ Get_context(tv) = Ok(ContextValue)
          /\ Downcast_ref(Get_context(tv).val, views).ret = Ok(Some("shared"))
          /\ (result.op \in {"print", "starlark_set_build_path"} /\ ~result.ret.ok)
                => result.ret.err.code = "PYOXIDIZER_BUILD"

\* C12's case: a script's set_build_path call failed after an earlier one had
\* moved the build path to /out.
C12_Witness ==
    /\ pc = "script"
    /\ result.op = "starlark_set_build_path"
    /\ ~result.ret.ok
    /\ Display(ctx.build_path) = "/out"
    /\ Get_context(tv).ok

\* The text of a printed value: a string's characters, an integer's digits.
Text(v) ==
    IF v.type = "string" THEN v.s
    ELSE <<"0", "1", "2", "3", "4", "5", "6", "7", "8", "9">>[v.n + 1]

\* The texts of the first n of args, a single space between neighbours.
RECURSIVE SingleSpaced(_, _)
SingleSpaced(args, n) ==
    IF n = 0 THEN ""
    ELSE IF n = 1 THEN Text(args[1])
    ELSE SingleSpaced(args, n - 1) \o " " \o Text(args[n])

\* C13: print(a1, ..., an) hands the logger exactly one record, at warning
\* level, whose text is the arguments' texts with a single space between
\* neighbours and none before the first or after the last, and returns None:
\* print("a", "b", 3) logs "a b 3", print() logs the empty line, print("x")
\* logs "x".
C13_PrintLogsOneSpacedLine ==
    /\ result.op = "print"
          => /\ result.ret = Ok(NoneValue)
             /\ Len(result.lines) = 1
             /\ result.lines[1].level = "warn"
             /\ result.lines[1].msg = SingleSpaced(result.arg, Len(result.arg))
             /\ result.arg = <<>> => result.lines[1].msg = ""
    /\ pc = "script"
          => /\ Starlark_print(tv, <<Str("a"), Str("b"), Int(3)>>, "accepts", views).lines
                   = <<[level |-> "warn", msg |-> "a b 3"]>>
             /\ Starlark_print(tv, <<Str("x")>>, "accepts", views).lines
                   = <<[level |-> "warn", msg |-> "x"]>>

\* C13's case: print("a", 3) has logged "a 3".
C13_Witness ==
    /\ result.op = "print"
    /\ result.arg = <<Str("a"), Int(3)>>
    /\ result.lines = <<[level |-> "warn", msg |-> "a 3"]>>
    /\ result.ret = Ok(NoneValue)

\* C14: print returns None, never an error, whatever its arguments, whatever
\* calls came before it in the session, and whether or not the logger's drain
\* wrote the record.
C14_PrintNeverFails ==
    result.op = "print" => result.ret.ok /\ result.ret.val = NoneValue

\* C14's case: print returned None although the logger's drain failed to
\* write the record, in a session whose last set_build_path call had failed.
C14_Witness ==
    /\ result.op = "print"
    /\ ~result.written
    /\ result.ret = Ok(NoneValue)
    /\ result.arg = <<Int(3), Str("a")>>
    /\ procCwd = Err("io")

\* C15: a script's set_build_path(P) that succeeds returns None and leaves
\* the context with build_path = normalize(P) and the distribution path under
\* it; one that fails returns a script error labelled "set_build_path()" that
\* carries the message of the context's own error, and leaves the context as
\* it was.
C15_BuiltinDelegates ==
    /\ [](result.op = "starlark_set_build_path"
             => IF result.ret.ok
                THEN /\ result.ret.val = NoneValue
                     /\ ctx.build_path = Normalized(ctx.cwd, result.arg)
                     /\ ctx.python_distributions_path
                            = Under(ctx.build_path, "python_distributions")
                ELSE /\ result.ret.err.label = "set_build_path()"
                     /\ result.ret.err.message = "io"
                     /\ result.ret.err.code = "PYOXIDIZER_BUILD")
    /\ [][(result'.op = "starlark_set_build_path" /\ ~result'.ret.ok) => ctx' = ctx]_vars

\* C15's case: a script's call failed, with the label and the io error's
\* message, on a context an earlier call of the script had moved to /proj/out.
C15_Witness ==
    /\ result.op = "starlark_set_build_path"
    /\ ~result.ret.ok
    /\ result.ret.err.label = "set_build_path()"
    /\ result.ret.err.message = "io"
    /\ Display(ctx.build_path) = "/proj/out"
    /\ Display(ctx.python_distributions_path) = "/proj/out/python_distributions"

Holders(k) ==
    Cardinality({i \in 1..Len(sess.live) : sess.live[i].key = k})
        + (IF k = 0 /\ sess.caller THEN 1 ELSE 0)

\* C17: a context constructed with the caller's cache holds that very cache,
\* so all such contexts hold one cache, which is alive as long as anyone holds
\* it, also after the caller or an earlier context has dropped it; a context
\* constructed without a cache holds a cache of its own, made for the
\* distribution path it started with.
C17_CacheShared ==
    /\ \A k \in 0..MaxSessions : sess.arcs[k].strong = Holders(k)
    /\ \A i \in 1..Len(sess.live) :
         LET s == sess.live[i]
         IN /\ sess.arcs[s.key].strong > 0
            /\ sess.arcs[s.key].scope = s.ctx.distribution_cache.scope
            /\ s.given => /\ s.key = 0
                          /\ s.ctx.distribution_cache = [id |-> "shared", scope |-> None]
            /\ ~s.given
                  => /\ s.key # 0
                     /\ \A j \in 1..Len(sess.live) : j # i => sess.live[j].key # s.key
                     /\ s.ctx.distribution_cache.scope
                            = Some(Under(Under(s.ctx.cwd, "build"), "python_distributions"))

\* C17's case: the caller has dropped its Arc and a context has been dropped;
\* the context left, which was given the caller's cache, still holds it, now
\* as its only holder.
C17_Witness ==
    /\ result.op = "drop"
    /\ ~sess.caller
    /\ Len(sess.live) = 1
    /\ sess.live[1].given
    /\ sess.live[1].key = 0
    /\ sess.arcs[0] = [strong |-> 1, scope |-> None]

\* C18: print and set_build_path drop the view they took before they return,
\* whether they succeed or fail: between the calls of a script no view of the
\* context value is outstanding, and no call is refused its view.
C18_ViewsReleased ==
    /\ views = NoViews
    /\ (result.op \in {"print", "starlark_set_build_path"} /\ ~result.ret.ok)
          => result.ret.err.code # "Borrowed"
    /\ pc = "script"
          => /\ Downcast_mut(Get_context(tv).val, views).ret = Ok(Some("exclusive"))
             /\ \A r \in Starlark_set_build_path(tv, ctx, Path(TRUE, <<"out">>, FALSE),
                                                 procCwd, views) :
                  r.views = NoViews /\ (r.ret.ok \/ r.ret.err.code # "Borrowed")

\* C18's case: a script's set_build_path call has just failed, after an
\* earlier call had taken and dropped its view to move the build path to
\* /proj/out/out; no view is left.
C18_Witness ==
    /\ pc = "script"
    /\ result.op = "starlark_set_build_path"
    /\ ~result.ret.ok
    /\ Display(ctx.build_path) = "/proj/out/out"
    /\ views = NoViews

\* The fields of a context beside build_path and python_distributions_path.
FrameFields ==
    {"kind", "verbose", "cwd", "config_path", "build_host_triple", "build_target_triple",
     "build_release", "build_opt_level", "distribution_cache"}

\* The names of the three constants.
ConstantNames == {"CWD", "CONFIG_PATH", "BUILD_TARGET_TRIPLE"}

\* C19: set_build_path, called by the host or by a script, changes no field of
\* the context beside build_path and the distribution path: working
\* directory, config path, triples, release flag, optimisation level, verbose
\* flag and the cache held stay, the cache still scoped to the distribution
\* path it was made for; the constants bound in the environment and published
\* on the secondary surface stay; print changes no field of the context.
C19_Frame ==
    /\ [][/\ \A f \in FrameFields : ctx'[f] = ctx[f]
          /\ pc = "script"
                => \A n \in ConstantNames :
                     /\ env'[n] = env[n]
                     /\ tv'[<<PyOxidizerType, n>>] = tv[<<PyOxidizerType, n>>]
          /\ result'.op = "print" => ctx' = ctx]_vars
    /\ [](ctx.distribution_cache.id = "new"
             => ctx.distribution_cache.scope
                    = Some(Under(Under(ctx.cwd, "build"), "python_distributions")))
    /\ [](pc = "script"
             => /\ env["CWD"] = Some(Str(Display(ctx.cwd)))
                /\ tv[<<PyOxidizerType, "CWD">>] = env["CWD"])

\* C19's case: a script has moved the build path of a context that made its
\* own cache to /out; the cache is the one made for /proj/build and CWD is
\* still /proj.
C19_Witness ==
    /\ pc = "script"
    /\ result.op = "starlark_set_build_path"
    /\ result.ret.ok
    /\ Display(ctx.build_path) = "/out"
    /\ ctx.distribution_cache.id = "new"
    /\ Display(ctx.distribution_cache.scope.val) = "/proj/build/python_distributions"
    /\ env["CWD"] = Some(Str("/proj"))

\* C20: after any sequence of set_build_path calls the build path and the
\* distribution path are those of the last call that succeeded, normalize of
\* its argument under the working directory fixed at construction, or those of
\* construction when none succeeded: earlier calls and failed calls do not
\* show; and a successful call repeated with the same argument changes
\* nothing.
C20_LastSuccessfulCallDecides ==
    /\ [](/\ ctx.build_path = IF lastOk.some THEN Normalized(ctx.cwd, lastOk.val)
                              ELSE Under(ctx.cwd, "build")
          /\ ctx.python_distributions_path = Under(ctx.build_path, "python_distributions"))
    /\ [][(/\ result.op = "set_build_path" /\ result.ret.ok
           /\ result'.op = "set_build_path" /\ result'.ret.ok
           /\ result'.arg = result.arg)
            => ctx' = ctx]_vars

\* C20's case: the last call failed; the call that succeeded last was given
\* "../out" under working directory /proj, and the build path is /out.
C20_Witness ==
    /\ result.op = "set_build_path"
    /\ ~result.ret.ok
    /\ lastOk.some
    /\ Display(lastOk.val) = "../out"
    /\ Display(ctx.cwd) = "/proj"
    /\ Display(ctx.build_path) = "/out"

====
